---- MODULE Spec2Model ----
(***************************************************************************)
(* Model of cargo's PackageIdSpec                                          *)
(* (src/cargo/util_schemas/core/package_id_spec.rs): parsing of package-id *)
(* tokens, the builder/setter API, and rendering (Display).                *)
(*                                                                         *)
(* Strings are sequences of one-character strings.  Option<T> is a         *)
(* sequence of length 0 (None) or 1 (Some).  A CargoResult is a record     *)
(* [status, spec] where status is "ok", "err" (an Err return) or "panic"   *)
(* (an unwrap on None/Err aborts the call).                                *)
(***************************************************************************)
EXTENDS Integers, Sequences, FiniteSets, TLC

\* ------------------------------------------------------------------ bounds
MaxLen == 5        \* longest plain token enumerated
MaxFrag == 3       \* longest URL fragment enumerated
MaxModLen == 3     \* longest parsed token whose value the builders and setters go on to change

\* --------------------------------------------------------------- characters
Alpha == {"a","b","c","d","e","f","g","h","i","j","k","l","m",
          "n","o","p","q","r","s","t","u","v","w","x","y","z"}
Digit == {"0","1","2","3","4","5","6","7","8","9"}

None == <<>>
Some(x) == <<x>>
IsSome(o) == Len(o) = 1
IsNone(o) == Len(o) = 0
Unwrap(o) == o[1]

\* ------------------------------------------------------------ string helpers
\* Position of the first character of s that lies in set cs, 0 when absent.
FindFirst(s, cs) ==
    IF \E i \in 1..Len(s) : s[i] \in cs
    THEN CHOOSE i \in 1..Len(s) : s[i] \in cs /\ \A j \in 1..(i-1) : s[j] \notin cs
    ELSE 0

\* Position of the last character of s that lies in set cs, 0 when absent.
FindLast(s, cs) ==
    IF \E i \in 1..Len(s) : s[i] \in cs
    THEN CHOOSE i \in 1..Len(s) : s[i] \in cs /\ \A j \in (i+1)..Len(s) : s[j] \notin cs
    ELSE 0

Prefix(s, n) == SubSeq(s, 1, n)
Suffix(s, n) == SubSeq(s, n, Len(s))

\* str::contains(pat) for a non-empty pattern
Contains(s, pat) ==
    \E i \in 1..(Len(s) - Len(pat) + 1) : SubSeq(s, i, i + Len(pat) - 1) = pat

StartsWith(s, pat) == Len(s) >= Len(pat) /\ Prefix(s, Len(pat)) = pat

\* str::split_once(chars): <<>> when no separator, else <<before, after>>
split_once(s, cs) ==
    LET i == FindFirst(s, cs)
    IN  IF i = 0 THEN None ELSE Some(<<Prefix(s, i - 1), Suffix(s, i + 1)>>)

\* str::split(c): the list of pieces between occurrences of c
RECURSIVE Split(_, _)
Split(s, c) ==
    LET i == FindFirst(s, {c})
    IN  IF i = 0 THEN <<s>> ELSE <<Prefix(s, i - 1)>> \o Split(Suffix(s, i + 1), c)

RECURSIVE Join(_, _)
Join(parts, c) ==
    IF Len(parts) = 0 THEN <<>>
    ELSE IF Len(parts) = 1 THEN parts[1]
    ELSE parts[1] \o <<c>> \o Join(Tail(parts), c)

\* ------------------------------------------------- numbers <-> decimal text
DigitVal(c) ==
    CASE c = "0" -> 0 [] c = "1" -> 1 [] c = "2" -> 2 [] c = "3" -> 3 [] c = "4" -> 4
      [] c = "5" -> 5 [] c = "6" -> 6 [] c = "7" -> 7 [] c = "8" -> 8 [] c = "9" -> 9

DigitChar(n) == CHOOSE c \in Digit : DigitVal(c) = n

RECURSIVE DecimalValue(_)
DecimalValue(s) ==
    IF Len(s) = 0 THEN 0
    ELSE 10 * DecimalValue(Prefix(s, Len(s) - 1)) + DigitVal(s[Len(s)])

RECURSIVE DecimalText(_)
DecimalText(n) ==
    IF n < 10 THEN <<DigitChar(n)>>
    ELSE DecimalText(n \div 10) \o <<DigitChar(n % 10)>>

\* --------------------------------------------------------- PartialVersion
\* A numeric identifier of semver: digits, no leading zero unless it is "0".
IsNumericIdent(s) ==
    /\ Len(s) > 0
    /\ \A i \in 1..Len(s) : s[i] \in Digit
    /\ (Len(s) > 1 => s[1] # "0")

\* <PartialVersion as FromStr>::from_str on text made of digits, dots and other
\* characters: one to three dot-separated numeric identifiers.  The value keeps
\* the numbers; minor and patch are Options.
PartialVersion_parse(s) ==
    LET comps == Split(s, ".")
    IN  IF Len(comps) \in 1..3 /\ \A i \in 1..Len(comps) : IsNumericIdent(comps[i])
        THEN [status |-> "ok",
              value  |-> [major |-> DecimalValue(comps[1]),
                          minor |-> IF Len(comps) >= 2 THEN Some(DecimalValue(comps[2])) ELSE None,
                          patch |-> IF Len(comps) >= 3 THEN Some(DecimalValue(comps[3])) ELSE None]]
        ELSE [status |-> "err", value |-> [major |-> 0, minor |-> None, patch |-> None]]

\* <PartialVersion as Display>::fmt
PartialVersion_fmt(v) ==
    DecimalText(v.major)
      \o (IF IsSome(v.minor) THEN <<".">> \o DecimalText(Unwrap(v.minor)) ELSE <<>>)
      \o (IF IsSome(v.patch) THEN <<".">> \o DecimalText(Unwrap(v.patch)) ELSE <<>>)

\* ------------------------------------------------------ validate_package_name
\* The first character, when there is one, is not a digit and is an XID start
\* character or '_'; every later one is an XID continue character or '-'.
\* The empty name passes (tests::bad_parsing expects "@1.2.3" to parse).
validate_package_name(name) ==
    /\ (Len(name) > 0 => name[1] \in Alpha \cup {"_"})
    /\ \A i \in 2..Len(name) : name[i] \in Alpha \cup Digit \cup {"_", "-"}

\* ------------------------------------------------------------------- url::Url
\* A parsed URL.  authority says whether "//" follows the scheme; host is then
\* the host text (possibly empty).  query and fragment are Options.  Two Urls
\* are equal exactly when their serializations are (Url_fmt is injective on
\* the records Url_parse builds).
\*
\* The model covers what the enumerated inputs use: lower-case ASCII, no
\* whitespace, brackets, backslashes or percent signs in the input, and
\* special-scheme hosts that are domains (not numeric, so never read as IPv4).
SpecialSchemes == {<<"h","t","t","p">>, <<"h","t","t","p","s">>, <<"f","t","p">>,
                   <<"w","s">>, <<"w","s","s">>, <<"f","i","l","e">>}
FileScheme == <<"f","i","l","e">>

default_port(scheme) ==
    CASE scheme = <<"h","t","t","p">> -> Some(80)
      [] scheme = <<"w","s">> -> Some(80)
      [] scheme = <<"h","t","t","p","s">> -> Some(443)
      [] scheme = <<"w","s","s">> -> Some(443)
      [] scheme = <<"f","t","p">> -> Some(21)
      [] OTHER -> None

NoUrl == [scheme |-> <<>>, authority |-> FALSE, username |-> <<>>, password |-> <<>>,
          host |-> <<>>, port |-> None, path |-> <<>>, query |-> None, fragment |-> None]
UrlErr == [status |-> "err", url |-> NoUrl]

\* Percent-encoding of user-info: of the modelled characters, '@', ':' and '='
\* are in the USERINFO encode set.
RECURSIVE userinfo_encode(_)
userinfo_encode(s) ==
    IF Len(s) = 0 THEN <<>>
    ELSE (CASE s[1] = "@" -> <<"%","4","0">>
            [] s[1] = ":" -> <<"%","3","A">>
            [] s[1] = "=" -> <<"%","3","D">>
            [] OTHER -> <<s[1]>>) \o userinfo_encode(Tail(s))

\* Removal of "." and ".." segments from a path that starts with '/'.
\* segs are the pieces after the leading '/', acc the segments kept so far.
RECURSIVE RemoveDots(_, _)
RemoveDots(segs, acc) ==
    IF Len(segs) = 0 THEN acc
    ELSE LET seg == segs[1]
             last == Len(segs) = 1
         IN  IF seg = <<".", ".">>
             THEN LET popped == IF Len(acc) > 0 THEN Prefix(acc, Len(acc) - 1) ELSE acc
                  IN  RemoveDots(Tail(segs), IF last THEN Append(popped, <<>>) ELSE popped)
             ELSE IF seg = <<".">>
             THEN RemoveDots(Tail(segs), IF last THEN Append(acc, <<>>) ELSE acc)
             ELSE RemoveDots(Tail(segs), Append(acc, seg))

NormalizePath(p) == <<"/">> \o Join(RemoveDots(Split(Suffix(p, 2), "/"), <<>>), "/")

\* Length of the run of '/' at the start of s.
RECURSIVE LeadingSlashes(_)
LeadingSlashes(s) ==
    IF Len(s) > 0 /\ s[1] = "/" THEN 1 + LeadingSlashes(Tail(s)) ELSE 0

\* The authority "user:password@host:port" of a URL with the given scheme, as
\* the parser's parse_userinfo, parse_host_and_port and parse_port read it.
\* Each step hands what it found to the next.  Result: [status, username,
\* password, host, port].
AuthorityErr == [status |-> "err", username |-> <<>>, password |-> <<>>, host |-> <<>>,
                 port |-> None]
NoAuthority == [status |-> "ok", username |-> <<>>, password |-> <<>>, host |-> <<>>,
                port |-> None]

parse_port(scheme, username, password, host, porttext) ==
    IF \E i \in 1..Len(porttext) : porttext[i] \notin Digit THEN AuthorityErr
    ELSE IF Len(porttext) > 0 /\ DecimalValue(porttext) > 65535 THEN AuthorityErr
    ELSE [status |-> "ok", username |-> username, password |-> password, host |-> host,
          port |-> IF Len(porttext) = 0 \/ Some(DecimalValue(porttext)) = default_port(scheme)
                   THEN None ELSE Some(DecimalValue(porttext))]

\* An empty host is an error before a port, with credentials, and for the
\* special schemes other than file; a file host takes no credentials or port.
parse_host_and_port(scheme, has_at, username, password, hostport, hc) ==
    IF scheme = FileScheme /\ (has_at \/ hc # 0) THEN AuthorityErr
    ELSE IF (hc = 1 \/ Len(hostport) = 0)
            /\ (hc # 0 \/ (scheme \in SpecialSchemes /\ scheme # FileScheme)
                \/ Len(username) > 0 \/ Len(password) > 0)
    THEN AuthorityErr
    ELSE parse_port(scheme, username, password,
                    IF hc = 0 THEN hostport ELSE Prefix(hostport, hc - 1),
                    IF hc = 0 THEN <<>> ELSE Suffix(hostport, hc + 1))

split_userinfo(scheme, has_at, userinfo, uc, hostport) ==
    parse_host_and_port(scheme, has_at,
        userinfo_encode(IF uc = 0 THEN userinfo ELSE Prefix(userinfo, uc - 1)),
        userinfo_encode(IF uc = 0 THEN <<>> ELSE Suffix(userinfo, uc + 1)),
        hostport, FindFirst(hostport, {":"}))

parse_userinfo(scheme, auth, at) ==
    split_userinfo(scheme, at # 0, Prefix(auth, at - 1),
                   FindFirst(Prefix(auth, at - 1), {":"}), Suffix(auth, at + 1))

ParseAuthority(auth, scheme) == parse_userinfo(scheme, auth, FindLast(auth, {"@"}))

\* The path of a hierarchical URL: "/" for an empty path of a special scheme,
\* dot segments removed from a path that starts with '/'; any other path of a
\* non-special scheme is opaque and kept as it is.
parse_path(scheme, pathtext) ==
    IF Len(pathtext) = 0 THEN (IF scheme \in SpecialSchemes THEN <<"/">> ELSE <<>>)
    ELSE IF pathtext[1] # "/" /\ scheme \notin SpecialSchemes THEN pathtext
    ELSE NormalizePath(IF pathtext[1] = "/" THEN pathtext ELSE <<"/">> \o pathtext)

make_url(scheme, authority, auth, pathtext, query, fragment) ==
    IF auth.status # "ok" THEN UrlErr
    ELSE [status |-> "ok",
          url |-> [scheme |-> scheme, authority |-> authority,
                   username |-> auth.username, password |-> auth.password,
                   host |-> auth.host, port |-> auth.port,
                   path |-> parse_path(scheme, pathtext),
                   query |-> query, fragment |-> fragment]]

\* text is what follows the slashes that introduce the authority.
split_authority(scheme, text, pstart, query, fragment) ==
    make_url(scheme, TRUE,
             ParseAuthority(IF pstart = 0 THEN text ELSE Prefix(text, pstart - 1), scheme),
             IF pstart = 0 THEN <<>> ELSE Suffix(text, pstart), query, fragment)

after_double_slash(scheme, text, query, fragment) ==
    split_authority(scheme, text, FindFirst(text, {"/"}), query, fragment)

\* Special schemes other than file take an authority after any number of
\* slashes; file and the other schemes have one exactly after "//".
after_slashes(scheme, body, slashes, query, fragment) ==
    IF slashes < 2 /\ (scheme \notin SpecialSchemes \/ scheme = FileScheme)
    THEN make_url(scheme, scheme = FileScheme, NoAuthority, body, query, fragment)
    ELSE after_double_slash(scheme,
            IF scheme \in SpecialSchemes /\ scheme # FileScheme
            THEN Suffix(body, slashes + 1) ELSE Suffix(body, 3),
            query, fragment)

parse_query(scheme, nofrag, qm, fragment) ==
    after_slashes(scheme,
                  IF qm = 0 THEN nofrag ELSE Prefix(nofrag, qm - 1),
                  LeadingSlashes(nofrag),
                  IF qm = 0 THEN None ELSE Some(Suffix(nofrag, qm + 1)),
                  fragment)

parse_fragment(scheme, rest, hash) ==
    parse_query(scheme,
                IF hash = 0 THEN rest ELSE Prefix(rest, hash - 1),
                FindFirst(IF hash = 0 THEN rest ELSE Prefix(rest, hash - 1), {"?"}),
                IF hash = 0 THEN None ELSE Some(Suffix(rest, hash + 1)))

parse_with_scheme(scheme, rest) == parse_fragment(scheme, rest, FindFirst(rest, {"#"}))

\* A scheme is a letter followed by letters, digits, '+', '-' or '.', up to
\* the first ':'.
parse_scheme(s, colon) ==
    IF colon < 2 THEN UrlErr
    ELSE IF s[1] \notin Alpha THEN UrlErr
    ELSE IF \E i \in 2..(colon - 1) : s[i] \notin Alpha \cup Digit \cup {"+", "-", "."}
    THEN UrlErr
    ELSE parse_with_scheme(Prefix(s, colon - 1), Suffix(s, colon + 1))

\* Url::parse
Url_parse(s) == parse_scheme(s, FindFirst(s, {":"}))

\* <Url as Display>::fmt, the serialization
Url_fmt(u) ==
    u.scheme \o <<":">>
      \o (IF u.authority
          THEN <<"/", "/">> \o u.username
                 \o (IF Len(u.password) > 0 THEN <<":">> \o u.password ELSE <<>>)
                 \o (IF Len(u.username) > 0 \/ Len(u.password) > 0 THEN <<"@">> ELSE <<>>)
                 \o u.host
                 \o (IF IsSome(u.port) THEN <<":">> \o DecimalText(Unwrap(u.port)) ELSE <<>>)
          ELSE <<>>)
      \o u.path
      \o (IF IsSome(u.query) THEN <<"?">> \o Unwrap(u.query) ELSE <<>>)
      \o (IF IsSome(u.fragment) THEN <<"#">> \o Unwrap(u.fragment) ELSE <<>>)

\* Url::path_segments: None for a URL that cannot be a base (its path does not
\* start with '/'), else the pieces of the path after the leading '/'.
path_segments(u) ==
    IF Len(u.path) > 0 /\ u.path[1] = "/" THEN Some(Split(Suffix(u.path, 2), "/")) ELSE None

\* Iterator::next_back on the segments
next_back(segs) == IF Len(segs) = 0 THEN None ELSE Some(segs[Len(segs)])

set_query_none(u) == [u EXCEPT !.query = None]
set_fragment_none(u) == [u EXCEPT !.fragment = None]

\* ------------------------------------------------------------- GitReference
DefaultBranch == [ref |-> "DefaultBranch", value |-> <<>>]
Branch(v) == [ref |-> "Branch", value |-> v]
Tag(v) == [ref |-> "Tag", value |-> v]
Rev(v) == [ref |-> "Rev", value |-> v]

\* application/x-www-form-urlencoded decoding of one name or value: '+' is a
\* space and %XX a byte.  Of the escapes, those of '/', '=', '+' and '&' are
\* modelled (the characters form_encode below escapes).
RECURSIVE form_decode(_)
form_decode(s) ==
    IF Len(s) = 0 THEN <<>>
    ELSE IF s[1] = "+" THEN <<" ">> \o form_decode(Tail(s))
    ELSE IF StartsWith(s, <<"%","2","F">>) THEN <<"/">> \o form_decode(Suffix(s, 4))
    ELSE IF StartsWith(s, <<"%","3","D">>) THEN <<"=">> \o form_decode(Suffix(s, 4))
    ELSE IF StartsWith(s, <<"%","2","B">>) THEN <<"+">> \o form_decode(Suffix(s, 4))
    ELSE IF StartsWith(s, <<"%","2","6">>) THEN <<"&">> \o form_decode(Suffix(s, 4))
    ELSE <<s[1]>> \o form_decode(Tail(s))

\* form_urlencoded::byte_serialize: letters, digits, '*', '-', '.', '_' stay,
\* a space becomes '+', anything else its %XX escape.
RECURSIVE form_encode(_)
form_encode(s) ==
    IF Len(s) = 0 THEN <<>>
    ELSE (CASE s[1] = " " -> <<"+">>
            [] s[1] = "/" -> <<"%","2","F">>
            [] s[1] = "=" -> <<"%","3","D">>
            [] s[1] = "+" -> <<"%","2","B">>
            [] s[1] = "&" -> <<"%","2","6">>
            [] OTHER -> <<s[1]>>) \o form_encode(Tail(s))

\* Url::query_pairs: the decoded (name, value) pairs of the query, in order.
RECURSIVE PairsOf(_)
PairsOf(pieces) ==
    IF Len(pieces) = 0 THEN <<>>
    ELSE LET piece == pieces[1]
             eq == FindFirst(piece, {"="})
             pair == IF eq = 0 THEN <<form_decode(piece), <<>>>>
                     ELSE <<form_decode(Prefix(piece, eq - 1)), form_decode(Suffix(piece, eq + 1))>>
         IN  (IF Len(piece) = 0 THEN <<>> ELSE <<pair>>) \o PairsOf(Tail(pieces))

query_pairs(u) == IF IsNone(u.query) THEN <<>> ELSE PairsOf(Split(Unwrap(u.query), "&"))

\* GitReference::from_query: the last branch, tag or rev pair wins.
RECURSIVE from_query_fold(_, _)
from_query_fold(pairs, reference) ==
    IF Len(pairs) = 0 THEN reference
    ELSE LET k == pairs[1][1]
             v == pairs[1][2]
         IN  from_query_fold(Tail(pairs),
                CASE k = <<"b","r","a","n","c","h">> -> Branch(v)
                  [] k = <<"r","e","v">> -> Rev(v)
                  [] k = <<"t","a","g">> -> Tag(v)
                  [] OTHER -> reference)

from_query(pairs) == from_query_fold(pairs, DefaultBranch)

\* GitReference::pretty_ref(url_encoded = true), as text: None for the default
\* branch, else "branch=", "tag=" or "rev=" and the encoded value.
pretty_ref(r) ==
    CASE r.ref = "DefaultBranch" -> None
      [] r.ref = "Branch" -> Some(<<"b","r","a","n","c","h","=">> \o form_encode(r.value))
      [] r.ref = "Tag" -> Some(<<"t","a","g","=">> \o form_encode(r.value))
      [] r.ref = "Rev" -> Some(<<"r","e","v","=">> \o form_encode(r.value))

\* --------------------------------------------------------------- SourceKind
Git(r) == [tag |-> "Git", reference |-> r]
Registry == [tag |-> "Registry", reference |-> DefaultBranch]
SparseRegistry == [tag |-> "SparseRegistry", reference |-> DefaultBranch]
Path == [tag |-> "Path", reference |-> DefaultBranch]

\* SourceKind::protocol: sparse URLs keep "sparse+" in the URL itself, so the
\* sparse kind has no prefix of its own.
protocol(k) ==
    CASE k.tag = "Path" -> Some(<<"p","a","t","h">>)
      [] k.tag = "Git" -> Some(<<"g","i","t">>)
      [] k.tag = "Registry" -> Some(<<"r","e","g","i","s","t","r","y">>)
      [] k.tag = "SparseRegistry" -> None

\* ------------------------------------------------------------ PackageIdSpec
PackageIdSpec(name, version, url, kind) ==
    [name |-> name, version |-> version, url |-> url, kind |-> kind]

Ok(spec) == [status |-> "ok", spec |-> Some(spec)]
Err == [status |-> "err", spec |-> None]
Panic == [status |-> "panic", spec |-> None]

new(name) == PackageIdSpec(name, None, None, None)
with_version(self, version) == [self EXCEPT !.version = Some(version)]
with_url(self, url) == [self EXCEPT !.url = Some(url)]
with_kind(self, kind) == [self EXCEPT !.kind = Some(kind)]
set_url(self, url) == [self EXCEPT !.url = Some(url)]
set_kind(self, kind) == [self EXCEPT !.kind = Some(kind)]

\* PackageIdSpec::from_package_id: every field is filled in; the version of a
\* package id is a full semver version.
from_package_id(package_id) ==
    PackageIdSpec(package_id.name,
                  Some([major |-> package_id.version[1],
                        minor |-> Some(package_id.version[2]),
                        patch |-> Some(package_id.version[3])]),
                  Some(package_id.url),
                  Some(package_id.kind))

\* strip_url_protocol: the text after the first '+' of the serialization,
\* parsed again; the unwrap panics when that text is not a URL (status "err"
\* of the result stands for that panic).
strip_url_protocol(url) == Url_parse(Unwrap(split_once(Url_fmt(url), {"+"}))[2])

\* The scheme match of from_url (lines 123-163): [status, strip, url, kind].
\* status "err" is a bail!; strip says whether strip_url_protocol is applied
\* to url next; url is the URL as the arm leaves it before stripping.
Classified(strip, url, kind) == [status |-> "ok", strip |-> strip, url |-> url, kind |-> kind]
Unclassified == [status |-> "err", strip |-> FALSE, url |-> NoUrl, kind |-> None]

\* Mutant: the git arm leaves the query on the URL.
classify_kind_keeps_query(url, kind_str, scheme) ==
    CASE kind_str = <<"g","i","t">> ->
            Classified(TRUE, url, Some(Git(from_query(query_pairs(url)))))
      [] kind_str = <<"r","e","g","i","s","t","r","y">> ->
            IF IsSome(url.query) THEN Unclassified ELSE Classified(TRUE, url, Some(Registry))
      [] kind_str = <<"s","p","a","r","s","e">> ->
            IF IsSome(url.query) THEN Unclassified
            ELSE Classified(FALSE, url, Some(SparseRegistry))
      [] kind_str = <<"p","a","t","h">> ->
            IF IsSome(url.query) THEN Unclassified
            ELSE IF scheme # FileScheme THEN Unclassified
            ELSE Classified(TRUE, url, Some(Path))
      [] OTHER -> Unclassified

\* Mutant: the sparse arm strips the prefix like the other arms.
classify_kind_strips_sparse(url, kind_str, scheme) ==
    CASE kind_str = <<"g","i","t">> ->
            Classified(TRUE, set_query_none(url), Some(Git(from_query(query_pairs(url)))))
      [] kind_str = <<"r","e","g","i","s","t","r","y">> ->
            IF IsSome(url.query) THEN Unclassified ELSE Classified(TRUE, url, Some(Registry))
      [] kind_str = <<"s","p","a","r","s","e">> ->
            IF IsSome(url.query) THEN Unclassified
            ELSE Classified(TRUE, url, Some(SparseRegistry))
      [] kind_str = <<"p","a","t","h">> ->
            IF IsSome(url.query) THEN Unclassified
            ELSE IF scheme # FileScheme THEN Unclassified
            ELSE Classified(TRUE, url, Some(Path))
      [] OTHER -> Unclassified

\* Mutant: the path arm takes any transport.
classify_kind_any_path_transport(url, kind_str, scheme) ==
    CASE kind_str = <<"g","i","t">> ->
            Classified(TRUE, set_query_none(url), Some(Git(from_query(query_pairs(url)))))
      [] kind_str = <<"r","e","g","i","s","t","r","y">> ->
            IF IsSome(url.query) THEN Unclassified ELSE Classified(TRUE, url, Some(Registry))
      [] kind_str = <<"s","p","a","r","s","e">> ->
            IF IsSome(url.query) THEN Unclassified
            ELSE Classified(FALSE, url, Some(SparseRegistry))
      [] kind_str = <<"p","a","t","h">> ->
            IF IsSome(url.query) THEN Unclassified
            ELSE Classified(TRUE, url, Some(Path))
      [] OTHER -> Unclassified

classify_kind(url, kind_str, scheme) ==
    CASE kind_str = <<"g","i","t">> ->
            Classified(TRUE, set_query_none(url), Some(Git(from_query(query_pairs(url)))))
      [] kind_str = <<"r","e","g","i","s","t","r","y">> ->
            IF IsSome(url.query) THEN Unclassified ELSE Classified(TRUE, url, Some(Registry))
      [] kind_str = <<"s","p","a","r","s","e">> ->
            IF IsSome(url.query) THEN Unclassified
            ELSE Classified(FALSE, url, Some(SparseRegistry))
      [] kind_str = <<"p","a","t","h">> ->
            IF IsSome(url.query) THEN Unclassified
            ELSE IF scheme # FileScheme THEN Unclassified
            ELSE Classified(TRUE, url, Some(Path))
      [] OTHER -> Unclassified

classify_split(url, plus) ==
    IF IsSome(plus) THEN classify_kind(url, Unwrap(plus)[1], Unwrap(plus)[2])
    ELSE IF IsSome(url.query) THEN Unclassified
    ELSE Classified(FALSE, url, None)

classify(url) == classify_split(url, split_once(url.scheme, {"+"}))

\* The (name, version) pair of from_url (lines 168-196): [status, name, version].
NameVersion(name, version) == [status |-> "ok", name |-> name, version |-> version]
NameVersionErr == [status |-> "err", name |-> <<>>, version |-> None]
NameVersionPanic == [status |-> "panic", name |-> <<>>, version |-> None]

name_with_version(name, version) ==
    IF version.status # "ok" THEN NameVersionErr ELSE NameVersion(name, Some(version.value))

\* Mutant: a fragment without separator is the name whatever it starts with.
fragment_name_version_no_heuristic(fragment, parts, path_name) ==
    IF IsSome(parts)
    THEN name_with_version(Unwrap(parts)[1], PartialVersion_parse(Unwrap(parts)[2]))
    ELSE IF Len(fragment) = 0 THEN NameVersionPanic
    ELSE NameVersion(fragment, None)

\* Mutant: an empty name before the separator falls back to the path name.
fragment_name_version_fallback(fragment, parts, path_name) ==
    IF IsSome(parts)
    THEN name_with_version(IF Len(Unwrap(parts)[1]) = 0 THEN path_name ELSE Unwrap(parts)[1],
                           PartialVersion_parse(Unwrap(parts)[2]))
    ELSE IF Len(fragment) = 0 THEN NameVersionPanic
    ELSE IF fragment[1] \in Alpha THEN NameVersion(fragment, None)
    ELSE name_with_version(path_name, PartialVersion_parse(fragment))

fragment_name_version(fragment, parts, path_name) ==
    IF IsSome(parts)
    THEN name_with_version(Unwrap(parts)[1], PartialVersion_parse(Unwrap(parts)[2]))
    ELSE IF Len(fragment) = 0 THEN NameVersionPanic
    ELSE IF fragment[1] \in Alpha THEN NameVersion(fragment, None)
    ELSE name_with_version(path_name, PartialVersion_parse(fragment))

path_name_version(frag, path_name) ==
    IF IsNone(path_name) THEN NameVersionErr
    ELSE IF IsNone(frag) THEN NameVersion(Unwrap(path_name), None)
    ELSE fragment_name_version(Unwrap(frag), split_once(Unwrap(frag), {":", "@"}),
                               Unwrap(path_name))

name_version(frag, path) ==
    IF IsNone(path) THEN NameVersionErr ELSE path_name_version(frag, next_back(Unwrap(path)))

from_url_result(nv, url, kind) ==
    CASE nv.status = "ok" -> Ok(PackageIdSpec(nv.name, nv.version, Some(url), kind))
      [] nv.status = "err" -> Err
      [] nv.status = "panic" -> Panic

\* Lines 165-203 of from_url, on the URL and kind the scheme match produced.
from_url_fragment(url, kind) ==
    from_url_result(name_version(url.fragment, path_segments(set_fragment_none(url))),
                    set_fragment_none(url), kind)

from_url_stripped(stripped, kind) ==
    IF stripped.status # "ok" THEN Panic ELSE from_url_fragment(stripped.url, kind)

from_url_classified(c) ==
    IF c.status # "ok" THEN Err
    ELSE IF c.strip THEN from_url_stripped(strip_url_protocol(c.url), c.kind)
    ELSE from_url_fragment(c.url, c.kind)

\* PackageIdSpec::from_url
from_url(url) == from_url_classified(classify(url))

\* The plain-token part of parse (lines 95-107).
plain_spec(name, version) ==
    IF version.status # "ok" THEN Err
    ELSE IF ~validate_package_name(name) THEN Err
    ELSE Ok(PackageIdSpec(name, version.value, None, None))

NoVersion == [status |-> "ok", value |-> None]
SomeVersion(v) == [status |-> v.status, value |-> Some(v.value)]

parse_parts(spec, parts) ==
    IF IsSome(parts)
    THEN plain_spec(Unwrap(parts)[1], SomeVersion(PartialVersion_parse(Unwrap(parts)[2])))
    ELSE plain_spec(spec, NoVersion)

\* Mutant: only ':' separates the name from the version.
parse_plain_colon_only(spec) == parse_parts(spec, split_once(spec, {":"}))

parse_plain(spec) == parse_parts(spec, split_once(spec, {":", "@"}))

parse_url(spec, url) ==
    IF url.status = "ok" THEN from_url(url.url) ELSE parse_plain(spec)

\* PackageIdSpec::parse.  exists is what abs.exists() answers when the token
\* holds a path separator and no "://".
parse(spec, exists) ==
    IF Contains(spec, <<":", "/", "/">>) THEN parse_url(spec, Url_parse(spec))
    ELSE IF (Contains(spec, <<"/">>) \/ Contains(spec, <<"\\">>)) /\ exists THEN Err
    ELSE parse_plain(spec)

\* The pieces <PackageIdSpec as Display>::fmt writes (lines 243-268).
fmt_prefix(kind) ==
    IF IsSome(kind) /\ IsSome(protocol(Unwrap(kind)))
    THEN Unwrap(protocol(Unwrap(kind))) \o <<"+">> ELSE <<>>

fmt_ref(kind) ==
    IF IsSome(kind) /\ Unwrap(kind).tag = "Git" /\ IsSome(pretty_ref(Unwrap(kind).reference))
    THEN <<"?">> \o Unwrap(pretty_ref(Unwrap(kind).reference)) ELSE <<>>

\* Mutant: the version always follows '@'.
fmt_version_always_at(version, printed_name) ==
    IF IsSome(version) THEN <<"@">> \o PartialVersion_fmt(Unwrap(version)) ELSE <<>>

fmt_version(version, printed_name) ==
    IF IsSome(version)
    THEN (IF printed_name THEN <<"@">> ELSE <<"#">>) \o PartialVersion_fmt(Unwrap(version))
    ELSE <<>>

\* Mutant: the name is written after every URL.
fmt_url_always_name(self, url, printed_name) ==
    fmt_prefix(self.kind) \o Url_fmt(url) \o fmt_ref(self.kind)
      \o <<"#">> \o self.name
      \o fmt_version(self.version, TRUE)

fmt_url(self, url, printed_name) ==
    fmt_prefix(self.kind) \o Url_fmt(url) \o fmt_ref(self.kind)
      \o (IF printed_name THEN <<"#">> \o self.name ELSE <<>>)
      \o fmt_version(self.version, printed_name)

fmt_segments(self, segs) ==
    IF IsNone(segs) \/ IsNone(next_back(Unwrap(segs)))
    THEN [status |-> "panic", text |-> <<>>]
    ELSE [status |-> "ok",
          text |-> fmt_url(self, Unwrap(self.url), Unwrap(next_back(Unwrap(segs))) # self.name)]

\* <PackageIdSpec as Display>::fmt, through to_string: [status, text].  The
\* unwraps of line 255 panic on a URL without path segments.
fmt(self) ==
    IF IsSome(self.url) THEN fmt_segments(self, path_segments(Unwrap(self.url)))
    ELSE [status |-> "ok", text |-> self.name \o fmt_version(self.version, TRUE)]

\* ------------------------------------------------------------------- inputs
Seqs(A, n) == UNION {[1..k -> A] : k \in 0..n}

\* Plain tokens: every string of at most MaxLen of these characters.
PlainAlphabet == {"a", "1", ".", ":", "@", "/"}
PlainTokens == Seqs(PlainAlphabet, MaxLen)

\* URL tokens, family A: [kind+]transport://host path [?query] [#fragment]
KindPrefixes == {<<>>, <<"g","i","t","+">>, <<"r","e","g","i","s","t","r","y","+">>,
                 <<"s","p","a","r","s","e","+">>, <<"p","a","t","h","+">>,
                 <<"f","o","o","+">>,
                 <<"r","e","g","i","s","t","r","y","+","s","p","a","r","s","e","+">>}
Transports == {<<"h","t","t","p","s">>, <<"f","i","l","e">>, <<"s","s","h">>, <<>>}
Hosts == {<<>>, <<"h">>, <<"u","@","h">>, <<"h",":","8">>}
Paths == {<<>>, <<"/","f">>, <<"/","f","/">>, <<"/","g","/",".","/","f">>}
Queries == {<<>>, <<"?">>, <<"?","x","=","y">>,
            <<"?","b","r","a","n","c","h","=","d">>,
            <<"?","t","a","g","=","t","&","r","e","v","=","r">>,
            <<"?","b","r","a","n","c","h","=","a","%","2","F","b">>}
Fragments == {<<>>, <<"#">>, <<"#","f">>, <<"#","1">>, <<"#","g","@","1",".","2">>}
SchemeTokens ==
    {k \o t \o <<":","/","/">> \o h \o p \o q \o f :
        k \in KindPrefixes, t \in Transports, h \in Hosts, p \in Paths,
        q \in Queries, f \in Fragments}

\* URL tokens, family B: a few URLs with every fragment of at most MaxFrag of
\* these characters.
FragAlphabet == {"f", "1", ".", ":", "@"}
FragBases == {<<"h","t","t","p","s",":","/","/","h","/","f">>,
              <<"s","p","a","r","s","e","+","h","t","t","p","s",":","/","/","h","/","f","/">>,
              <<"g","i","t","+","s","s","h",":","/","/","u","@","h","/","f","?","t","a","g","=","t">>}
FragmentTokens == {b \o <<"#">> \o f : b \in FragBases, f \in Seqs(FragAlphabet, MaxFrag)}

Tokens == PlainTokens \cup SchemeTokens \cup FragmentTokens

\* Arguments of the constructors, builders and setters.
Names == {<<"f">>, <<"g">>}
Versions == {PartialVersion_parse(<<"1">>).value, PartialVersion_parse(<<"1",".","2">>).value,
             PartialVersion_parse(<<"1",".","2",".","3">>).value}
UrlOf(text) == Url_parse(text).url
HttpsUrl == UrlOf(<<"h","t","t","p","s",":","/","/","h","/","f">>)
SparseUrl == UrlOf(<<"s","p","a","r","s","e","+","h","t","t","p","s",":","/","/","h","/","f">>)
FileUrl == UrlOf(<<"f","i","l","e",":","/","/","/","f">>)
SshUrl == UrlOf(<<"s","s","h",":","/","/","h","/","f">>)
BareUrl == UrlOf(<<"s","s","h",":","/","/","h">>)
Urls == {HttpsUrl, SparseUrl, FileUrl, BareUrl}
Kinds == {Registry, SparseRegistry, Path, Git(DefaultBranch), Git(Branch(<<"d">>))}
PackageIds ==
    {[name |-> n, version |-> <<1, 2, 3>>, url |-> src[1], kind |-> src[2]] :
        n \in {<<"f">>, <<"g">>},
        src \in {<<HttpsUrl, Registry>>, <<SparseUrl, SparseRegistry>>,
                 <<FileUrl, Path>>, <<SshUrl, Git(Branch(<<"d">>))>>}}

\* abs.exists() is consulted only for a token with a path separator and no "://".
ExistsAnswers(text) ==
    IF ~Contains(text, <<":", "/", "/">>) /\ (Contains(text, <<"/">>) \/ Contains(text, <<"\\">>))
    THEN BOOLEAN ELSE {FALSE}

\* -------------------------------------------------------------------- state
VARIABLES
    pc,        \* "start", "failed", "value", "rendered", "reparsed"
    origin,    \* how loc was made: "none", "parse", "new", "from_package_id", "modified"
    token,     \* the text given to parse (when origin = "parse")
    exists,    \* what abs.exists() answered for token
    status,    \* status of parse(token): "none", "ok", "err", "panic"
    loc,       \* Option<PackageIdSpec>: the value in hand
    rendered,  \* loc.to_string(): [status, text]
    reparsed   \* parse(rendered.text): [status, spec]

vars == <<pc, origin, token, exists, status, loc, rendered, reparsed>>

NotRendered == [status |-> "none", text |-> <<>>]
NotParsed == [status |-> "none", spec |-> None]

Init ==
    /\ pc = "start"
    /\ origin = "none"
    /\ token = <<>>
    /\ exists = FALSE
    /\ status = "none"
    /\ loc = None
    /\ rendered = NotRendered
    /\ reparsed = NotParsed

\* PackageIdSpec::parse(token)
Parse ==
    /\ pc = "start"
    /\ \E t \in Tokens : \E e \in ExistsAnswers(t) :
         LET r == parse(t, e)
         IN  /\ token' = t
             /\ exists' = e
             /\ status' = r.status
             /\ loc' = r.spec
             /\ pc' = IF r.status = "ok" THEN "value" ELSE "failed"
    /\ origin' = "parse"
    /\ UNCHANGED <<rendered, reparsed>>

\* PackageIdSpec::new(name)
New ==
    /\ pc = "start"
    /\ \E n \in Names : loc' = Some(new(n))
    /\ pc' = "value"
    /\ origin' = "new"
    /\ UNCHANGED <<token, exists, status, rendered, reparsed>>

\* PackageIdSpec::from_package_id(package_id)
FromPackageId ==
    /\ pc = "start"
    /\ \E p \in PackageIds : loc' = Some(from_package_id(p))
    /\ pc' = "value"
    /\ origin' = "from_package_id"
    /\ UNCHANGED <<token, exists, status, rendered, reparsed>>

\* A builder or setter changes the value in hand; what is known of the token
\* it may have been parsed from no longer describes it.
Modified ==
    /\ (origin = "parse" => Len(token) <= MaxModLen)
    /\ pc' = "value"
    /\ origin' = "modified"
    /\ token' = <<>>
    /\ exists' = FALSE
    /\ status' = "none"
    /\ UNCHANGED <<rendered, reparsed>>

WithVersion ==
    /\ pc = "value"
    /\ \E v \in Versions : loc' = Some(with_version(Unwrap(loc), v))
    /\ Modified

WithUrl ==
    /\ pc = "value"
    /\ \E u \in Urls : loc' = Some(with_url(Unwrap(loc), u))
    /\ Modified

WithKind ==
    /\ pc = "value"
    /\ \E k \in Kinds : loc' = Some(with_kind(Unwrap(loc), k))
    /\ Modified

SetUrl ==
    /\ pc = "value"
    /\ \E u \in Urls : loc' = Some(set_url(Unwrap(loc), u))
    /\ Modified

SetKind ==
    /\ pc = "value"
    /\ \E k \in Kinds : loc' = Some(set_kind(Unwrap(loc), k))
    /\ Modified

\* loc.to_string()
Render ==
    /\ pc = "value"
    /\ rendered' = fmt(Unwrap(loc))
    /\ pc' = "rendered"
    /\ UNCHANGED <<origin, token, exists, status, loc, reparsed>>

\* PackageIdSpec::parse(&rendered)
Reparse ==
    /\ pc = "rendered"
    /\ rendered.status = "ok"
    /\ \E e \in ExistsAnswers(rendered.text) : reparsed' = parse(rendered.text, e)
    /\ pc' = "reparsed"
    /\ UNCHANGED <<origin, token, exists, status, loc, rendered>>

Next ==
    \/ New
    \/ FromPackageId
    \/ Parse
    \/ WithVersion
    \/ WithUrl
    \/ WithKind
    \/ SetUrl
    \/ SetKind
    \/ Render
    \/ Reparse

Spec == Init /\ [][Next]_vars

\* ----------------------------------------------------------------- claims
\* What the token of the state is, read off the token itself.
Parsed == origin = "parse" /\ pc # "start"
ParsedOk == Parsed /\ status = "ok"
TokenUrl == Url_parse(token)
IsUrlToken == Contains(token, <<":", "/", "/">>) /\ TokenUrl.status = "ok"
TokenScheme == split_once(TokenUrl.url.scheme, {"+"})
HasKindPrefix(k) == IsUrlToken /\ IsSome(TokenScheme) /\ Unwrap(TokenScheme)[1] = k
TokenTransport == Unwrap(TokenScheme)[2]
KindGit == <<"g","i","t">>
KindRegistry == <<"r","e","g","i","s","t","r","y">>
KindSparse == <<"s","p","a","r","s","e">>
KindPath == <<"p","a","t","h">>
Value == Unwrap(loc)
LastSegment(u) == Unwrap(next_back(Unwrap(path_segments(u))))

\* C1: round-trip law over tokens.  When parse(token) succeeds with L, then
\* L.to_string() completes and parsing it succeeds with a value equal to L in
\* name, version, url and kind.
C1_RoundTrip ==
    origin = "parse" =>
        /\ pc = "rendered" => rendered.status = "ok"
        /\ pc = "reparsed" => reparsed.status = "ok" /\ Unwrap(reparsed.spec) = Value

\* A URL token was parsed, rendered to a different text, and parsed again.
C1_Witness ==
    /\ origin = "parse" /\ pc = "reparsed"
    /\ IsSome(Value.url) /\ IsSome(Value.version)
    /\ rendered.text # token

\* C2: kind/query exclusivity.  A URL token with kind prefix registry, sparse
\* or path, or with no kind prefix, fails to parse when its URL has a
\* non-empty query.  A git+ token with a query, which parses when the query
\* is left out, parses; its kind is Git with the reference its query pairs
\* give, and the stored URL has no query and is the URL of the token without
\* the query.
ExpectedRef(q) ==
    CASE q = <<"b","r","a","n","c","h","=","d">> -> Branch(<<"d">>)
      [] q = <<"t","a","g","=","t">> -> Tag(<<"t">>)
      [] q = <<"t","a","g","=","t","&","r","e","v","=","r">> -> Rev(<<"r">>)
      [] q = <<"b","r","a","n","c","h","=","a","%","2","F","b">> -> Branch(<<"a","/","b">>)
      [] q = <<"x","=","y">> -> DefaultBranch
      [] q = <<>> -> DefaultBranch

WithoutQuery == parse(Url_fmt(set_query_none(TokenUrl.url)), FALSE)

C2_KindQueryExclusivity ==
    (Parsed /\ IsUrlToken /\ IsSome(TokenUrl.url.query)) =>
        /\ (/\ Len(Unwrap(TokenUrl.url.query)) > 0
            /\ (IsNone(TokenScheme) \/ HasKindPrefix(KindRegistry)
                \/ HasKindPrefix(KindSparse) \/ HasKindPrefix(KindPath)))
           => status = "err"
        /\ (HasKindPrefix(KindGit) /\ WithoutQuery.status = "ok")
           => /\ status = "ok"
              /\ Value.kind = Some(Git(ExpectedRef(Unwrap(TokenUrl.url.query))))
              /\ IsNone(Unwrap(Value.url).query)
              /\ Value.url = Unwrap(WithoutQuery.spec).url
              /\ Value.name = Unwrap(WithoutQuery.spec).name
              /\ Value.version = Unwrap(WithoutQuery.spec).version

\* A git+ token with two query pairs parsed to the Git kind with the later
\* pair's reference.
C2_Witness ==
    /\ ParsedOk /\ HasKindPrefix(KindGit)
    /\ TokenUrl.url.query = Some(<<"t","a","g","=","t","&","r","e","v","=","r">>)
    /\ Value.kind = Some(Git(Rev(<<"r">>)))

\* C3 (as stated): for a URL token that parses and has a non-empty fragment,
\* a fragment starting with a letter gives the name (the name is the fragment
\* or the part of it before the separator), and a fragment starting with a
\* digit is the version, the name being the URL's last path segment.
TokenFragment == Unwrap(TokenUrl.url.fragment)
HasFragment == IsUrlToken /\ IsSome(TokenUrl.url.fragment) /\ Len(TokenFragment) > 0
FragmentSplit == split_once(TokenFragment, {":", "@"})
NameFromFragment ==
    Value.name = IF IsSome(FragmentSplit) THEN Unwrap(FragmentSplit)[1] ELSE TokenFragment
FragmentIsVersion ==
    /\ Value.version = Some(PartialVersion_parse(TokenFragment).value)
    /\ PartialVersion_parse(TokenFragment).status = "ok"
    /\ Value.name = LastSegment(Unwrap(Value.url))

C3_Original ==
    (ParsedOk /\ HasFragment) =>
        /\ TokenFragment[1] \in Alpha => NameFromFragment
        /\ TokenFragment[1] \in Digit => FragmentIsVersion

\* C3 (amended): the digit rule holds for a fragment without ':' or '@'; a
\* fragment with a separator gives the part before it as the name and the
\* part after it as the version, whatever its first character.
C3_FragmentHeuristic ==
    (ParsedOk /\ HasFragment) =>
        /\ TokenFragment[1] \in Alpha => NameFromFragment
        /\ (TokenFragment[1] \in Alpha /\ IsNone(FragmentSplit)) => IsNone(Value.version)
        /\ (TokenFragment[1] \in Digit /\ IsNone(FragmentSplit)) => FragmentIsVersion
        /\ IsSome(FragmentSplit) =>
              /\ NameFromFragment
              /\ Value.version = Some(PartialVersion_parse(Unwrap(FragmentSplit)[2]).value)

\* A fragment of digits and a dot was read as the version.
C3_Witness ==
    /\ ParsedOk /\ HasFragment
    /\ TokenFragment = <<"1", ".", "1">>
    /\ Value.name = <<"f">>
    /\ IsSome(Value.version)

\* C4: scheme prefix policy.  After a successful parse of a token with scheme
\* kind+transport the stored URL has scheme transport for git, registry and
\* path and the whole scheme for sparse; the kind is Git, Registry, Path or
\* SparseRegistry; rendering a sparse value writes the stored URL with no
\* prefix before it.
C4_SchemePrefixPolicy ==
    (ParsedOk /\ IsUrlToken /\ IsSome(TokenScheme)) =>
        /\ HasKindPrefix(KindGit) =>
              Unwrap(Value.url).scheme = TokenTransport /\ Unwrap(Value.kind).tag = "Git"
        /\ HasKindPrefix(KindRegistry) =>
              Unwrap(Value.url).scheme = TokenTransport /\ Value.kind = Some(Registry)
        /\ HasKindPrefix(KindPath) =>
              Unwrap(Value.url).scheme = TokenTransport /\ Value.kind = Some(Path)
        /\ HasKindPrefix(KindSparse) =>
              /\ Unwrap(Value.url).scheme = TokenUrl.url.scheme
              /\ Value.kind = Some(SparseRegistry)
              /\ pc \in {"rendered", "reparsed"} =>
                    /\ rendered.status = "ok"
                    /\ StartsWith(rendered.text, Url_fmt(Unwrap(Value.url)))
                    /\ ~StartsWith(rendered.text, KindSparse \o <<"+">> \o KindSparse)
        /\ IsSome(Value.kind)

\* A sparse+https token was parsed and rendered.
C4_Witness ==
    /\ ParsedOk /\ HasKindPrefix(KindSparse) /\ pc = "rendered"
    /\ Unwrap(Value.url).scheme = KindSparse \o <<"+","h","t","t","p","s">>

\* C5: in every PackageIdSpec the operations produce, the kind is present
\* only when the URL is.
C5_KindImpliesUrl ==
    IsSome(loc) => (IsSome(Value.kind) => IsSome(Value.url))

\* C6: a name parse returns has been accepted by validate_package_name.
C6_NameValidated ==
    ParsedOk => validate_package_name(Value.name)

\* C7 (as stated): a successful parse returns a non-empty name.
C7_Original ==
    ParsedOk => Len(Value.name) > 0

\* C7 (amended): a successful parse returns an empty name exactly for a plain
\* token that is empty or begins with ':' or '@', for a URL token whose
\* fragment begins with ':' or '@', and for a URL token whose URL has an empty
\* last path segment and whose fragment is absent or a bare version.
EmptyNameToken ==
    IF IsUrlToken
    THEN IF IsSome(TokenUrl.url.fragment) /\ IsSome(FragmentSplit)
         THEN Len(Unwrap(FragmentSplit)[1]) = 0
         ELSE /\ Len(LastSegment(Unwrap(Value.url))) = 0
              /\ (IsSome(TokenUrl.url.fragment) => TokenFragment[1] \notin Alpha)
    ELSE Len(token) = 0 \/ token[1] \in {":", "@"}

C7_EmptyNameCases ==
    ParsedOk => (Len(Value.name) = 0 <=> EmptyNameToken)

\* A URL token whose fragment begins with the separator parsed to an empty name.
C7_Witness ==
    /\ ParsedOk /\ IsUrlToken /\ IsSome(TokenUrl.url.fragment)
    /\ TokenFragment = <<"@", "1">>
    /\ Value.name = <<>>

\* C8: a value made by the constructors, builders and setters renders, and
\* the rendering parses to an equal value.
C8_RenderRoundTrip ==
    origin \in {"new", "from_package_id", "modified"} =>
        /\ pc = "rendered" => rendered.status = "ok"
        /\ pc = "reparsed" => reparsed.status = "ok" /\ Unwrap(reparsed.spec) = Value

\* C9: a URL token with scheme kind+transport fails to parse, returning no
\* value, when kind is none of git, registry, sparse and path, and when kind
\* is path and transport is not file.
C9_UnsupportedProtocol ==
    (Parsed /\ IsUrlToken /\ IsSome(TokenScheme)) =>
        /\ Unwrap(TokenScheme)[1] \notin {KindGit, KindRegistry, KindSparse, KindPath}
           => status = "err" /\ IsNone(loc)
        /\ (HasKindPrefix(KindPath) /\ TokenTransport # FileScheme)
           => status = "err" /\ IsNone(loc)

\* path+https was refused.
C9_Witness ==
    /\ Parsed /\ HasKindPrefix(KindPath) /\ TokenTransport = <<"h","t","t","p","s">>
    /\ IsNone(TokenUrl.url.query)
    /\ status = "err"

\* C10: plain-token path.  A token without "://" that is not an existing
\* path is split at its first ':' or '@'; it parses exactly when the text
\* after the separator (if there is one) is a partial version and the text
\* before it a valid name; the result has that name and version, no URL and
\* no kind.  Writing '@' for ':' or ':' for '@' at the separator changes
\* nothing (when that token has no "://" either), and a token ending in its
\* first separator fails.
Separator == FindFirst(token, {":", "@"})
BeforeSeparator == IF Separator = 0 THEN token ELSE Prefix(token, Separator - 1)
AfterSeparator == Suffix(token, Separator + 1)
OtherSeparator ==
    [token EXCEPT ![Separator] = IF token[Separator] = ":" THEN "@" ELSE ":"]

C10_PlainToken ==
    (Parsed /\ ~Contains(token, <<":", "/", "/">>) /\ ~exists) =>
        /\ status \in {"ok", "err"}
        /\ status = "ok" <=>
              /\ Separator # 0 => PartialVersion_parse(AfterSeparator).status = "ok"
              /\ validate_package_name(BeforeSeparator)
        /\ status = "ok" =>
              /\ Value.name = BeforeSeparator
              /\ Value.version = IF Separator = 0 THEN None
                                 ELSE Some(PartialVersion_parse(AfterSeparator).value)
              /\ IsNone(Value.url) /\ IsNone(Value.kind)
        /\ (Separator # 0 /\ ~Contains(OtherSeparator, <<":", "/", "/">>))
           => parse(OtherSeparator, FALSE) = [status |-> status, spec |-> loc]
        /\ (Separator # 0 /\ Separator = Len(token)) => status = "err"

\* name:version was parsed.
C10_Witness ==
    /\ ParsedOk /\ token = <<"a", ":", "1">>
    /\ Value.name = <<"a">> /\ IsSome(Value.version) /\ IsNone(Value.url)

\* C11: empty fragment handling.  Parsing a URL token whose fragment is
\* present and empty (the token ends in '#') never aborts, and its result is
\* the result of parsing the same token without the '#': the same outcome
\* and, on success, name the last path segment and no version.
EmptyFragmentToken ==
    /\ IsUrlToken /\ IsSome(TokenUrl.url.fragment) /\ Len(TokenFragment) = 0
    /\ token[Len(token)] = "#"
WithoutFragment == parse(Prefix(token, Len(token) - 1), exists)

C11_EmptyFragment ==
    (Parsed /\ EmptyFragmentToken) =>
        /\ status # "panic"
        /\ status = WithoutFragment.status
        /\ loc = WithoutFragment.spec
        /\ status = "ok" =>
             Value.name = LastSegment(Unwrap(Value.url)) /\ IsNone(Value.version)

\* C12: canonical rendering shape.  A completed rendering of a value without
\* URL is the name, followed by '@' and the version when there is one.  A
\* completed rendering of a value with URL carries '#' and the name after the
\* URL exactly when the URL's last path segment differs from the name; the
\* version, when there is one, follows '@' after a written name and '#'
\* otherwise.  No ':' separates name and version, whatever the token used.
Rendered == pc \in {"rendered", "reparsed"} /\ rendered.status = "ok"
VersionText == PartialVersion_fmt(Unwrap(Value.version))
AtVersion == IF IsSome(Value.version) THEN <<"@">> \o VersionText ELSE <<>>
RenderedHash == FindFirst(rendered.text, {"#"})
RenderedTail ==
    IF RenderedHash = 0 THEN None ELSE Some(Suffix(rendered.text, RenderedHash + 1))
ExpectedTail ==
    IF LastSegment(Unwrap(Value.url)) # Value.name THEN Some(Value.name \o AtVersion)
    ELSE IF IsSome(Value.version) THEN Some(VersionText)
    ELSE None
NameVersionText ==
    IF IsSome(Value.url) THEN (IF IsSome(RenderedTail) THEN Unwrap(RenderedTail) ELSE <<>>)
    ELSE rendered.text

C12_RenderingShape ==
    Rendered =>
        /\ IsNone(Value.url) => rendered.text = Value.name \o AtVersion
        /\ IsSome(Value.url) => RenderedTail = ExpectedTail
        /\ origin = "parse" => ~Contains(NameVersionText, <<":">>)

\* A URL token that gives name and version with ':' was rendered with the
\* name after '#' and the version after '@'.
C12_Witness ==
    /\ Rendered /\ origin = "parse" /\ IsUrlToken
    /\ TokenFragment = <<"1", ":", "1">>
    /\ LastSegment(Unwrap(Value.url)) = <<"f">>
    /\ RenderedTail = Some(<<"1", "@", "1">>)

====
